---- MODULE Spec2Model ----
(***************************************************************************)
(* Move/state engine of the tile-reveal bingo bot: the boards, the move    *)
(* log and its persisted copy, the cooldown gate and the command handlers  *)
(* that act on them (src/data.py, src/commands.py, src/bot.py).            *)
(*                                                                         *)
(* Conventions.  A Python str is a sequence of one-character strings, so   *)
(* "a, 2" is <<"a", ",", " ", "2">>.  A Python list is a sequence.  The    *)
(* tile types 1, 2, 3 and "bomb" of tiles.json are written "1", "2", "3"   *)
(* and "bomb".  A tile object is named by the pair of indexes that         *)
(* locates it in its board; of its fields only `revealed` is ever          *)
(* assigned after the board is built, so the state keeps the revealed      *)
(* flags and the other fields are read from the board as it was built.     *)
(* Command handlers are coroutines on a single event loop: a handler runs  *)
(* without interruption from one await to the next, so each action below   *)
(* is the code between two awaits.  The roster (data.teams) and the admin  *)
(* ids are deployment data: the model takes two teams, one of two members  *)
(* and one of one, and one admin who is on no team.  time.time() and       *)
(* datetime.utcnow() read the same clock; its reading is `now`.            *)
(***************************************************************************)
EXTENDS Integers, Sequences, FiniteSets, TLC

VARIABLES
    move_log,             \* data.move_log: list of MoveLog
    move_log_file,        \* content of move_log.json on disk
    board,                \* board[i][r][c] is data.teams[i].board[r][c].revealed
    user_team_cooldowns,  \* commands.user_team_cooldowns: (user_id, team_id) -> time
    now,                  \* the wall clock, in seconds
    running,              \* the process is up (startup completed)
    undo_tasks,           \* undo_move handlers suspended in the await of line 311, per team id
    tile_data,            \* content of tiles.json (fixed for a run)
    last,                 \* the most recent handler step: command and outcome
    hist                  \* history: what has been revealed and when (see HistInit)

vars == <<move_log, move_log_file, board, user_team_cooldowns, now, running,
          undo_tasks, tile_data, last, hist>>

----------------------------------------------------------------------------
(* Bounds of the model *)

\* the move log is not grown beyond this length while the clock runs
MaxLog == 2
\* the move log is not grown beyond this length while the process is restarted
MaxLogRestart == 3
\* undo_move handlers suspended at the same time
MaxTasks == 1
\* entries of the move log file that the process finds when it starts
MaxFile == 2
\* tile definitions of the tiles.json that the process finds when it starts
MaxDefs == 2

----------------------------------------------------------------------------
(* Python built-ins on strings *)

UpperCase == <<"A", "B", "C", "D", "E", "F", "G", "H", "I", "J", "K", "L", "M",
               "N", "O", "P", "Q", "R", "S", "T", "U", "V", "W", "X", "Y", "Z">>
LowerCase == <<"a", "b", "c", "d", "e", "f", "g", "h", "i", "j", "k", "l", "m",
               "n", "o", "p", "q", "r", "s", "t", "u", "v", "w", "x", "y", "z">>
Digits    == <<"0", "1", "2", "3", "4", "5", "6", "7", "8", "9">>

IndexIn(seq, ch) ==
    IF \E i \in 1..Len(seq) : seq[i] = ch
    THEN CHOOSE i \in 1..Len(seq) : seq[i] = ch
    ELSE 0

\* ord(ch) for the characters of the input alphabet
ord(ch) ==
    IF IndexIn(UpperCase, ch) > 0 THEN 64 + IndexIn(UpperCase, ch)
    ELSE IF IndexIn(LowerCase, ch) > 0 THEN 96 + IndexIn(LowerCase, ch)
    ELSE IF IndexIn(Digits, ch) > 0 THEN 47 + IndexIn(Digits, ch)
    ELSE IF ch = " " THEN 32
    ELSE IF ch = "+" THEN 43
    ELSE IF ch = "," THEN 44
    ELSE 45  \* "-"

\* chr(n) for n in the range of the capital letters
chr(n) == UpperCase[n - 64]

\* the letters left as they were typed; used to test that C24 notices the case
keep_case(s) == s

\* str.upper()
upper(s) ==
    [i \in 1..Len(s) |->
        IF IndexIn(LowerCase, s[i]) > 0 THEN UpperCase[IndexIn(LowerCase, s[i])] ELSE s[i]]

\* str.strip(): leading and trailing whitespace removed
RECURSIVE lstrip(_)
lstrip(s) == IF s # <<>> /\ Head(s) = " " THEN lstrip(Tail(s)) ELSE s

RECURSIVE rstrip(_)
rstrip(s) ==
    IF s # <<>> /\ s[Len(s)] = " " THEN rstrip(SubSeq(s, 1, Len(s) - 1)) ELSE s

strip(s) == rstrip(lstrip(s))

\* str.split(","): the list of the parts between the commas
RECURSIVE split(_)
split(s) ==
    IF \A i \in 1..Len(s) : s[i] # ","
    THEN <<s>>
    ELSE LET k == CHOOSE i \in 1..Len(s) :
                      s[i] = "," /\ \A j \in 1..(i - 1) : s[j] # ","
         IN  <<SubSeq(s, 1, k - 1)>> \o split(SubSeq(s, k + 1, Len(s)))

RECURSIVE DigitsValue(_)
DigitsValue(s) ==
    IF s = <<>> THEN 0
    ELSE 10 * DigitsValue(SubSeq(s, 1, Len(s) - 1)) + (IndexIn(Digits, s[Len(s)]) - 1)

\* int(s): an optional sign and decimal digits, else ValueError
int(s) ==
    LET signed == s # <<>> /\ Head(s) \in {"+", "-"}
        body   == IF signed THEN Tail(s) ELSE s
    IN  IF body # <<>> /\ \A i \in 1..Len(body) : IndexIn(Digits, body[i]) > 0
        THEN [ok |-> TRUE,
              value |-> IF signed /\ Head(s) = "-" THEN 0 - DigitsValue(body)
                        ELSE DigitsValue(body)]
        ELSE [ok |-> FALSE, value |-> 0]

----------------------------------------------------------------------------
(* Static data: the roster, the admins, the grid *)

\* the board is SIZE x SIZE
SIZE == 7

\* commands.COOLDOWN_DURATION, in seconds
COOLDOWN_DURATION == 20 * 60

\* config.ADMIN_IDS
ADMIN_IDS == {4}

\* data.teams as built by load_dummy_data_from_json: ids and members
teams == << [id |-> 1, members |-> <<1, 2>>],
            [id |-> 2, members |-> <<3>>] >>

\* the users that send commands: the members, an admin, nobody else
Users == {1, 2, 3, 4}

Rows == 0..(SIZE - 1)

\* Tile as far as the engine reads it
Tile(coordinates, tile_type, revealed) ==
    [coordinates |-> coordinates, tile_type |-> tile_type, revealed |-> revealed]

----------------------------------------------------------------------------
(* data.py: coordinates, boards, tiles *)

\* a Python tuple (a, b) and a Python list [a, b]; they never compare equal
PyTuple(a, b) == [kind |-> "tuple", items |-> <<a, b>>]
PyList(a, b)  == [kind |-> "list", items |-> <<a, b>>]

\* what get_tile gives: the tile at [row_index][col_index], None, or a TypeError
\* raised by ord() on a string that is not one character long
Found(r, c)   == [kind |-> "tile", row_index |-> r, col_index |-> c]
NoTile        == [kind |-> "None", row_index |-> 0, col_index |-> 0]
OrdTypeError  == [kind |-> "TypeError", row_index |-> 0, col_index |-> 0]

\* a lookup that takes the column for the row; used to test that C13 notices
\* which tile is returned
get_tile_transposed(coord) ==
    LET row_index == coord.items[2] - 1
        col_index == IF Len(coord.items[1]) = 1
                     THEN ord(upper(coord.items[1])[1]) - ord("A")
                     ELSE 0 - 1
    IN  IF 0 <= row_index /\ row_index < SIZE /\ 0 <= col_index /\ col_index < SIZE
        THEN Found(row_index, col_index)
        ELSE NoTile

get_tile(coord) ==
    LET row_letter == coord.items[1]
        col_number == coord.items[2]
    IN  IF Len(upper(row_letter)) # 1 THEN OrdTypeError
        ELSE LET row_index == ord(upper(row_letter)[1]) - ord("A")
                 col_index == col_number - 1
             IN  IF 0 <= row_index /\ row_index < SIZE /\ 0 <= col_index /\ col_index < SIZE
                 THEN Found(row_index, col_index)
                 ELSE NoTile

\* a default tile that is a bomb; used to test that C14 notices the default
DefaultBomb(row_letter, col_index) == Tile(<<row_letter, col_index + 1>>, "bomb", FALSE)

\* the tile for a position without a definition
DefaultTile(row_letter, col_index) == Tile(<<row_letter, col_index + 1>>, "1", FALSE)

create_board_template_from_json(json_data) ==
    [row_index \in Rows |->
        LET row_letter == <<chr(ord("A") + row_index)>>
        IN  [col_index \in Rows |->
                LET matching == {i \in 1..Len(json_data) :
                                    json_data[i].coordinates = <<row_letter, col_index + 1>>}
                IN  IF matching # {}
                    THEN LET first == CHOOSE i \in matching : \A j \in matching : i <= j
                         IN  Tile(json_data[first].coordinates,
                                  json_data[first].tile_type,
                                  json_data[first].revealed)
                    ELSE DefaultTile(row_letter, col_index)]]

\* the revealed flags of a board of tiles
\* the fields of a definition that create_board_template_from_json reads
TileFields == {"coordinates", "tile_type", "revealed"}

\* create_board_template_from_json raises KeyError: the definition taken for
\* some tile of the grid lacks a field that is read from it
template_key_error(json_data) ==
    \E row_index \in Rows, col_index \in Rows :
        LET row_letter == <<chr(ord("A") + row_index)>>
            matching == {i \in 1..Len(json_data) :
                            json_data[i].coordinates = <<row_letter, col_index + 1>>}
        IN  /\ matching # {}
            /\ LET first == CHOOSE i \in matching : \A j \in matching : i <= j
               IN  ~(TileFields \subseteq DOMAIN json_data[first])

flags_of(tiles) == [r \in Rows |-> [c \in Rows |-> tiles[r][c].revealed]]

\* load_dummy_data_from_json: every team gets its own board built from the file
load_dummy_data_from_json(json_data) ==
    [i \in 1..Len(teams) |-> flags_of(create_board_template_from_json(json_data))]

\* first team with a member of that id; 0 stands for None
get_user_team(discord_id) ==
    LET having == {i \in 1..Len(teams) :
                      \E k \in 1..Len(teams[i].members) : teams[i].members[k] = discord_id}
    IN  IF having = {} THEN 0 ELSE CHOOSE i \in having : \A j \in having : i <= j

\* next((t for t in data.teams if t.id == team_id), None); 0 stands for None
team_by_id(team_id) ==
    LET having == {i \in 1..Len(teams) : teams[i].id = team_id}
    IN  IF having = {} THEN 0 ELSE CHOOSE i \in having : \A j \in having : i <= j

----------------------------------------------------------------------------
(* data.py: the move log and its file *)

MoveLog(team_id, discord_id, coord, timestamp) ==
    [team_id |-> team_id, discord_id |-> discord_id, coord |-> coord,
     timestamp |-> timestamp]

\* datetime.utcnow().isoformat(): the string that writes the clock's reading
isoformat(t) == <<"iso", t>>

\* MoveLog.to_dict: the coordinate becomes a list
to_dict(ml) ==
    [team_id |-> ml.team_id, discord_id |-> ml.discord_id,
     coord |-> PyList(ml.coord.items[1], ml.coord.items[2]),
     timestamp |-> ml.timestamp]

\* MoveLog.from_dict: the coordinate stays the list that JSON gave
from_dict(d) == MoveLog(d.team_id, d.discord_id, d.coord, d.timestamp)

\* the file: absent, holding a JSON list, or cut short by a failed write
NoFile        == [state |-> "absent", data |-> <<>>]
JsonFile(d)   == [state |-> "valid", data |-> d]
Truncated     == [state |-> "truncated", data |-> <<>>]

\* the ways a write can end: done, open() fails, json.dump fails part-way
IoOutcomes == {"ok", "open_error", "write_error"}

\* a save that returns without writing; used to test that C10 notices the file
save_nothing(log, file, io) == [raised |-> FALSE, file |-> file]

\* save_move_log: open(filename, "w") truncates, json.dump writes the list
save_move_log(log, file, io) ==
    IF io = "ok"
    THEN [raised |-> FALSE, file |-> JsonFile([i \in 1..Len(log) |-> to_dict(log[i])])]
    ELSE IF io = "open_error"
    THEN [raised |-> TRUE, file |-> file]
    ELSE [raised |-> TRUE, file |-> Truncated]

\* a load for which a missing file is an error; used to test that C23 notices
\* the first run
load_without_default(file) ==
    IF file.state = "valid"
    THEN [raised |-> FALSE, value |-> [i \in 1..Len(file.data) |-> from_dict(file.data[i])]]
    ELSE [raised |-> TRUE, value |-> <<>>]

\* load_move_log: [] when there is no file; a file that is not JSON raises
load_move_log(file) ==
    IF file.state = "absent" THEN [raised |-> FALSE, value |-> <<>>]
    ELSE IF file.state = "valid"
    THEN [raised |-> FALSE, value |-> [i \in 1..Len(file.data) |-> from_dict(file.data[i])]]
    ELSE [raised |-> TRUE, value |-> <<>>]

\* the moves of every team; used to test that C9 notices whose moves count
moves_of_any_team(log, team_id) == log

\* [m for m in move_log if m.team_id == team_id]
RECURSIVE team_moves(_, _)
team_moves(log, team_id) ==
    IF log = <<>> THEN <<>>
    ELSE (IF Head(log).team_id = team_id THEN <<Head(log)>> ELSE <<>>)
         \o team_moves(Tail(log), team_id)

\* list.remove(x): the first element equal to x is taken out
list_remove(log, x) ==
    IF \E i \in 1..Len(log) : log[i] = x
    THEN LET k == CHOOSE i \in 1..Len(log) : log[i] = x /\ \A j \in 1..(i - 1) : log[j] # x
         IN  SubSeq(log, 1, k - 1) \o SubSeq(log, k + 1, Len(log))
    ELSE log

----------------------------------------------------------------------------
(* data.py: projection and rendering *)

set_revealed(b, r, c, v) == [b EXCEPT ![r][c] = v]

\* a loop that stops after the first entry of the log; used to test that C29
\* notices the order of the entries
apply_first_move(b, log, team_id) ==
    IF log = <<>> THEN b
    ELSE LET move == Head(log)
             tile == IF move.team_id = team_id THEN get_tile(move.coord) ELSE NoTile
         IN  IF tile.kind = "tile"
             THEN set_revealed(b, tile.row_index, tile.col_index, TRUE)
             ELSE b

\* the loop of apply_move_log_to_board over the log, in order
RECURSIVE apply_moves(_, _, _)
apply_moves(b, log, team_id) ==
    IF log = <<>> THEN b
    ELSE LET move == Head(log)
             tile == IF move.team_id = team_id THEN get_tile(move.coord) ELSE NoTile
         IN  apply_moves(IF tile.kind = "tile"
                         THEN set_revealed(b, tile.row_index, tile.col_index, TRUE)
                         ELSE b,
                         Tail(log), team_id)

\* a replay that does not reset the tiles first; used to test that C7 notices
\* the flags from before
apply_without_reset(b, log, team_id) == apply_moves(b, log, team_id)

\* apply_move_log_to_board(team): reset every tile, then replay the team's moves
apply_move_log_to_board(b, log, team_id) ==
    apply_moves([r \in Rows |-> [c \in Rows |-> FALSE]], log, team_id)

\* every type worth one point; used to test that C15 notices the point values
flat_score(tile_type) == 1

score_map(tile_type) ==
    IF tile_type = "1" THEN 1
    ELSE IF tile_type = "2" THEN 2
    ELSE IF tile_type = "3" THEN 3
    ELSE 4  \* "bomb"

\* revealed_coords of render_board_view
revealed_coords(log, team_id) ==
    {<<log[i].coord.items[1], log[i].coord.items[2]>> :
        i \in {j \in 1..Len(log) : log[j].team_id = team_id}}

\* a rendering that leaves exactly the tiles named by the team's moves marked;
\* used to test that C30 notices a flag that is cleared
rendered_from_log(b, tiles, log, team_id) ==
    LET named == {<<log[i].coord.items[1], log[i].coord.items[2]>> :
                     i \in {j \in 1..Len(log) : log[j].team_id = team_id}}
    IN  [r \in Rows |-> [c \in Rows |->
            <<tiles[r][c].coordinates[1], tiles[r][c].coordinates[2]>> \in named]]

\* the flags after render_board_view: tiles named by the team's moves are marked
rendered_board(b, tiles, log, team_id) ==
    LET named == revealed_coords(log, team_id)
    IN  [r \in Rows |-> [c \in Rows |->
            IF <<tiles[r][c].coordinates[1], tiles[r][c].coordinates[2]>> \in named
            THEN TRUE
            ELSE b[r][c]]]

RECURSIVE SumScores(_, _, _)
SumScores(b, tiles, k) ==
    IF k = SIZE * SIZE THEN 0
    ELSE (IF b[k \div SIZE][k % SIZE] THEN score_map(tiles[k \div SIZE][k % SIZE].tile_type)
          ELSE 0)
         + SumScores(b, tiles, k + 1)

\* render_board_view: the flags it leaves, the cells it shows and the score
render_board_view(b, tiles, log, team_id) ==
    LET after == rendered_board(b, tiles, log, team_id)
    IN  [board |-> after,
         cells |-> [r \in Rows |-> [c \in Rows |->
                      IF after[r][c] THEN tiles[r][c].tile_type ELSE "unrevealed"]],
         total_score |-> SumScores(after, tiles, 0)]

\* the keys of emoji_map and score_map of render_board_view
TileTypes == {"1", "2", "3", "bomb"}

\* the tiles at which emoji_map[tile.tile_type] raises KeyError: revealed when
\* the loop comes to them, of a type that is no key; numbered row by row
key_errors(b, tiles, log, team_id) ==
    LET after == rendered_board(b, tiles, log, team_id)
    IN  {k \in 0..(SIZE * SIZE - 1) :
            /\ after[k \div SIZE][k % SIZE]
            /\ tiles[k \div SIZE][k % SIZE].tile_type \notin TileTypes}

\* the flags that render_board_view leaves when it ends with the KeyError: the
\* loop has marked the tiles up to the one at which it raises
rendered_until_error(b, tiles, log, team_id) ==
    LET after  == rendered_board(b, tiles, log, team_id)
        errors == key_errors(b, tiles, log, team_id)
        first  == CHOOSE k \in errors : \A j \in errors : k <= j
    IN  [r \in Rows |-> [c \in Rows |->
            IF r * SIZE + c <= first THEN after[r][c] ELSE b[r][c]]]

----------------------------------------------------------------------------
(* Inputs *)

TileDef(row_letter, col_number, tile_type, revealed) ==
    [coordinates |-> <<row_letter, col_number>>, tile_type |-> tile_type,
     revealed |-> revealed]

\* a tiles.json of a game that starts: a few definitions, one given twice, one
\* outside the grid; every other position gets the default tile
FreshTiles ==
    << TileDef(<<"A">>, 1, "bomb", FALSE),
       TileDef(<<"A">>, 2, "2", FALSE),
       TileDef(<<"B">>, 1, "3", FALSE),
       TileDef(<<"A">>, 1, "1", FALSE),
       TileDef(<<"H">>, 1, "2", FALSE) >>

\* the same with the definition of B1 marked as revealed
MarkedTiles ==
    [i \in 1..Len(FreshTiles) |->
        IF FreshTiles[i].coordinates = <<(<<"B">>), 1>>
        THEN [FreshTiles[i] EXCEPT !.revealed = TRUE]
        ELSE FreshTiles[i]]

\* arguments of !select
CoordInputs ==
    { <<"A", ",", "1">>,            \* A,1
      <<"a", ",", " ", "2">>,       \* a, 2
      <<"H", ",", "1">>,            \* H,1: row outside the grid
      <<"A", ",", "0">>,            \* A,0: column outside the grid
      <<"A", "1">>,                 \* A1: no comma
      <<"A", ",", "x">>,            \* A,x: column not a number
      <<"A", "A", ",", "1">> }      \* AA,1: row of two letters

\* more arguments that parse and name no tile of the grid
OutOfGrid ==
    { <<"A", ",", "8">>,            \* A,8: column above 7
      <<"A", ",", "-", "1">>,       \* A,-1: negative column
      <<",", "1">> }                \* ,1: empty row part

\* the blanks typed around a part of the argument: none or one
Blanks == { <<>>, <<" ">> }

\* an argument made of a row letter, a comma and a column number, with blanks
\* around either part
Padded(letter, number, a, b, c, d) ==
    a \o <<letter>> \o b \o <<",">> \o c \o number \o d

\* "a,2" with every choice of blanks, "B,10" with none and with all
PaddedInputs ==
    { Padded("a", <<"2">>, a, b, c, d) :
        a \in Blanks, b \in Blanks, c \in Blanks, d \in Blanks }
    \cup { Padded("B", <<"1", "0">>, a, a, a, a) : a \in Blanks }

\* arguments that are not of this form: no comma, two commas, a column that
\* is no integer, no column
MalformedInputs ==
    { <<"A", "2">>,                        \* A2
      <<"A", ",", "2", ",", "3">>,         \* A,2,3
      <<"A", ",", "x">>,                   \* A,x
      <<"A", ",", "2", " ", "3">>,         \* A,2 3
      <<"A", ",">> }                       \* A,

\* team ids given to the admin commands: the teams' and one that is no team's
TeamIdInputs == {1, 2, 3}

\* the arguments of the runs that are not about the parsing: a tile and a
\* coordinate outside the grid
OneTile == { <<"a", ",", " ", "1">>, <<"H", ",", "1">> }

\* the entries of a move log file that the process finds when it starts: of
\* either team, for two tiles and for a coordinate outside the grid
FileEntries ==
    { to_dict(MoveLog(teams[i].id, teams[i].members[1], PyList(c[1], c[2]), isoformat(0))) :
        i \in 1..Len(teams),
        c \in { <<(<<"A">>), 1>>, <<(<<"B">>), 1>>, <<(<<"H">>), 1>> } }

RECURSIVE SeqsUpTo(_, _)
SeqsUpTo(S, n) ==
    IF n = 0 THEN {<<>>}
    ELSE LET shorter == SeqsUpTo(S, n - 1)
         IN  shorter \cup {Append(q, x) : q \in shorter, x \in S}

FileInputs == {JsonFile(d) : d \in SeqsUpTo(FileEntries, MaxFile)}

\* the definitions of a tiles.json: two for A1 of different types, one of them
\* marked as revealed, one for the last tile of the grid, one outside the grid
DefEntries ==
    { TileDef(<<"A">>, 1, "bomb", FALSE),
      TileDef(<<"A">>, 1, "2", TRUE),
      TileDef(<<"G">>, 7, "3", FALSE),
      TileDef(<<"H">>, 1, "2", FALSE) }

\* the tiles.json files: empty, partial, with duplicates, with strays
DefInputs == SeqsUpTo(DefEntries, MaxDefs)

\* definitions that are not what the engine expects: of a type that is none of
\* 1, 2, 3, "bomb", or without the tile_type field, for A1 and for a
\* coordinate outside the grid; and a definition that is as expected
RawDefEntries ==
    { TileDef(<<"A">>, 1, "gold", FALSE),
      TileDef(<<"A">>, 1, "gold", TRUE),
      [coordinates |-> <<(<<"A">>), 1>>, revealed |-> FALSE],
      [coordinates |-> <<(<<"H">>), 1>>, revealed |-> FALSE],
      TileDef(<<"A">>, 2, "2", FALSE) }

RawDefInputs == SeqsUpTo(RawDefEntries, MaxDefs)

\* the readings of the clock: the second is exactly a cooldown window after the
\* first, the third is more than a window after the first and less than a
\* window after the second
ClockReadings == {0, COOLDOWN_DURATION, COOLDOWN_DURATION + 1}

----------------------------------------------------------------------------
(* State after the first start of the process *)

NoCooldowns == [k \in {} |-> 0]

\* what the latest handler step did: the command, and the answer it sent or the
\* exception that ended it without an answer
Observed(cmd, outcome) == [cmd |-> cmd, outcome |-> outcome]

\* history kept for stating the properties:
\*   won[t]    time of the latest successful reveal of team t in this process that
\*             no reset_cooldown of t has followed, or -1
\*   standing  the <<team id, coordinate>> pairs revealed with success and not
\*             undone since
\*   probe     a successful reveal and, while nothing else comes between, the
\*             undo of its team that follows it: the log before the reveal and
\*             how far the undo has come
NoProbe == [stage |-> "none", team_id |-> 0, coord |-> <<>>, log0 |-> <<>>]

HistInit ==
    [won |-> [t \in TeamIdInputs |-> -1], standing |-> {}, probe |-> NoProbe]

InitWith(tiles) ==
    /\ tile_data = tiles
    /\ move_log_file = NoFile
    /\ move_log = load_move_log(NoFile).value
    /\ board = load_dummy_data_from_json(tile_data)
    /\ user_team_cooldowns = NoCooldowns
    /\ now = 0
    /\ running = TRUE
    /\ undo_tasks = [t \in TeamIdInputs |-> 0]
    /\ last = Observed("startup", "Started")
    /\ hist = HistInit

Init == InitWith(MarkedTiles)

InitFresh == InitWith(FreshTiles)

\* the state after a first start that finds any of the tiles.json files
InitBuilt == \E tiles \in DefInputs : InitWith(tiles)

\* the state after a first start that finds a tiles.json with definitions that
\* are not as expected: the KeyError of the build ends the start-up
InitRaw ==
    \E tiles \in RawDefInputs :
        IF template_key_error(tiles)
        THEN /\ tile_data = tiles
             /\ move_log_file = NoFile
             /\ move_log = load_move_log(NoFile).value
             /\ board = [i \in 1..Len(teams) |-> [r \in Rows |-> [c \in Rows |-> FALSE]]]
             /\ user_team_cooldowns = NoCooldowns
             /\ now = 0
             /\ running = FALSE
             /\ undo_tasks = [t \in TeamIdInputs |-> 0]
             /\ last = Observed("startup", "KeyError")
             /\ hist = HistInit
        ELSE InitWith(tiles)

\* the state after a start that finds a move log file and either tiles.json
InitLoaded ==
    /\ tile_data \in {FreshTiles, MarkedTiles}
    /\ move_log_file \in FileInputs
    /\ move_log = load_move_log(move_log_file).value
    /\ board = load_dummy_data_from_json(tile_data)
    /\ user_team_cooldowns = NoCooldowns
    /\ now = 0
    /\ running = TRUE
    /\ undo_tasks = [t \in TeamIdInputs |-> 0]
    /\ last = Observed("startup", "Started")
    /\ hist = HistInit

----------------------------------------------------------------------------
(* commands.py: !select *)

\* no collection: every entry is kept; used to test that C5 notices which
\* entries go
without_collection(cooldowns, t) == cooldowns

\* a collection that stamps every entry with the time of the attempt; used to
\* test that C27 notices a refreshed entry
with_refreshed(cooldowns, t) == [k \in DOMAIN cooldowns |-> t]

\* a collection that also deletes the entries exactly a window old; used to
\* test that C28 notices an entry that is gone too early
without_expired_or_due(cooldowns, t) ==
    [k \in {key \in DOMAIN cooldowns : ~(t - cooldowns[key] >= COOLDOWN_DURATION)}
        |-> cooldowns[k]]

\* lines 38-41: the entries older than the window are deleted
without_expired(cooldowns, t) ==
    [k \in {key \in DOMAIN cooldowns : ~(t - cooldowns[key] > COOLDOWN_DURATION)}
        |-> cooldowns[k]]

\* a gate per member, which looks at the caller's own entry only; used to test
\* that C4 notices whom the gate blocks
member_on_cooldown(cooldowns, user_id, team_id, t) ==
    /\ <<user_id, team_id>> \in DOMAIN cooldowns
    /\ t - cooldowns[<<user_id, team_id>>] < COOLDOWN_DURATION

\* a gate that looks for a move of the team in the log that is younger than
\* the window; used to test that C33 notices a cooldown that ends with the undo
moved_in_window(cooldowns, user_id, team_id, t) ==
    \E i \in 1..Len(move_log) :
        /\ move_log[i].team_id = team_id
        /\ t - move_log[i].timestamp[2] < COOLDOWN_DURATION

\* a gate that any young entry closes, of whatever team; used to test that
\* C34 notices a team blocked by another
anyone_on_cooldown(cooldowns, user_id, team_id, t) ==
    \E key \in DOMAIN cooldowns : t - cooldowns[key] < COOLDOWN_DURATION

\* lines 44-48: some entry of the team is younger than the window
team_on_cooldown(cooldowns, user_id, team_id, t) ==
    \E key \in DOMAIN cooldowns :
        key[2] = team_id /\ t - cooldowns[key] < COOLDOWN_DURATION

\* lines 55-60: the coordinate of the argument, or the ValueError of the
\* unpacking or of int()
parse_coord(coord_str) ==
    LET parts == split(coord_str)
    IN  IF Len(parts) # 2 THEN [ok |-> FALSE, coord |-> PyTuple(<<>>, 0)]
        ELSE LET col == int(strip(parts[2]))
             IN  IF col.ok
                 THEN [ok |-> TRUE, coord |-> PyTuple(upper(strip(parts[1])), col.value)]
                 ELSE [ok |-> FALSE, coord |-> PyTuple(<<>>, 0)]

\* a check that never finds the tile revealed; used to test that C6 notices
\* the check inside the critical section
never_revealed(b, tile) == FALSE

\* line 67: the tile is already revealed
already_revealed(b, tile) == b[tile.row_index][tile.col_index]

\* a success that leaves the cooldowns as they are; used to test that C26
\* notices the entry of the caller
record_no_cooldown(cooldowns, user_id, team_id, t) == cooldowns

\* line 84: the cooldown entry of the successful caller
record_cooldown(cooldowns, user_id, team_id, t) ==
    [k \in DOMAIN cooldowns \cup {<<user_id, team_id>>} |->
        IF k = <<user_id, team_id>> THEN t ELSE cooldowns[k]]

\* lines 27-69: what select_tile decides from the state it reads
select_outcome(author_id, coord_str) ==
    LET team   == get_user_team(author_id)
        cd     == without_expired(user_team_cooldowns, now)
        parsed == parse_coord(coord_str)
        tile   == get_tile(parsed.coord)
    IN  IF team = 0 THEN "NotOnTeam"
        ELSE IF team_on_cooldown(cd, author_id, teams[team].id, now) THEN "OnCooldown"
        ELSE IF ~parsed.ok THEN "InvalidCoordinateFormat"
        ELSE IF tile.kind = "TypeError" THEN "TypeError"
        ELSE IF tile.kind = "None" THEN "InvalidCoordinate"
        ELSE IF already_revealed(board[team], tile) THEN "AlreadyRevealed"
        ELSE "Reveal"

select_tile(author_id, coord_str, io) ==
    LET team    == get_user_team(author_id)
        team_id == IF team = 0 THEN 0 ELSE teams[team].id
        cd      == without_expired(user_team_cooldowns, now)
        parsed  == parse_coord(coord_str)
        tile    == get_tile(parsed.coord)
        decided == select_outcome(author_id, coord_str)
        entry   == MoveLog(team_id, author_id, parsed.coord, isoformat(now))
        saved   == save_move_log(Append(move_log, entry), move_log_file, io)
        pair    == <<team_id, parsed.coord.items>>
    IN  /\ running
        /\ IF decided = "Reveal"
           THEN /\ board' = [board EXCEPT ![team] =
                                set_revealed(@, tile.row_index, tile.col_index, TRUE)]
                /\ move_log' = Append(move_log, entry)
                /\ move_log_file' = saved.file
                /\ IF saved.raised
                   THEN /\ user_team_cooldowns' = cd
                        /\ hist' = [hist EXCEPT !.probe = NoProbe]
                        /\ last' = Observed("select", "OSError")
                   ELSE /\ user_team_cooldowns' = record_cooldown(cd, author_id, team_id, now)
                        /\ hist' = [won |-> [hist.won EXCEPT ![team_id] = now],
                                    standing |-> hist.standing \cup {pair},
                                    probe |-> [stage |-> "revealed", team_id |-> team_id,
                                               coord |-> parsed.coord.items,
                                               log0 |-> move_log]]
                        /\ last' = Observed("select", "Revealed")
           ELSE /\ user_team_cooldowns' =
                       IF decided = "NotOnTeam" THEN user_team_cooldowns ELSE cd
                /\ hist' = [hist EXCEPT !.probe = NoProbe]
                /\ last' = Observed("select", decided)
                /\ UNCHANGED <<board, move_log, move_log_file>>
        /\ UNCHANGED <<now, running, undo_tasks, tile_data>>

----------------------------------------------------------------------------
(* commands.py: !undo_move *)

\* an undo that does not look at who asks; used to test that C16 notices the
\* authorization check
undo_outcome_of_anyone(author_id, team_id) ==
    LET moves == team_moves(move_log, team_id)
        tile  == get_tile(moves[Len(moves)].coord)
    IN  IF moves = <<>> THEN "NoMovesForTeam"
        ELSE IF team_by_id(team_id) = 0 THEN "TeamNotFound"
        ELSE IF tile.kind = "TypeError" THEN "TypeError"
        ELSE IF tile.kind = "None" THEN "TileNotFound"
        ELSE "Undo"

\* lines 290-306: what undo_move decides from the state it reads
undo_outcome(author_id, team_id) ==
    LET moves == team_moves(move_log, team_id)
        tile  == get_tile(moves[Len(moves)].coord)
    IN  IF author_id \notin ADMIN_IDS THEN "Unauthorized"
        ELSE IF moves = <<>> THEN "NoMovesForTeam"
        ELSE IF team_by_id(team_id) = 0 THEN "TeamNotFound"
        ELSE IF tile.kind = "TypeError" THEN "TypeError"
        ELSE IF tile.kind = "None" THEN "TileNotFound"
        ELSE "Undo"

\* lines 290-311: up to the await that sends the confirmation
undo_move(author_id, team_id, io) ==
    LET moves     == team_moves(move_log, team_id)
        last_move == moves[Len(moves)]
        team      == team_by_id(team_id)
        tile      == get_tile(last_move.coord)
        removed   == list_remove(move_log, last_move)
        saved     == save_move_log(removed, move_log_file, io)
        decided   == undo_outcome(author_id, team_id)
        pair      == <<team_id, last_move.coord.items>>
        undone    == [hist EXCEPT !.standing = @ \ {pair}]
    IN  /\ running
        /\ IF decided = "Undo"
           THEN /\ board' = [board EXCEPT ![team] =
                                set_revealed(@, tile.row_index, tile.col_index, FALSE)]
                /\ move_log' = removed
                /\ move_log_file' = saved.file
                /\ IF saved.raised
                   THEN /\ UNCHANGED undo_tasks
                        /\ hist' = [undone EXCEPT !.probe = NoProbe]
                        /\ last' = Observed("undo_move", "OSError")
                   ELSE /\ undo_tasks' = [undo_tasks EXCEPT ![team_id] = @ + 1]
                        /\ hist' = [undone EXCEPT !.probe =
                                       IF @.stage = "revealed" /\ @.team_id = team_id
                                       THEN [@ EXCEPT !.stage = "undone"]
                                       ELSE NoProbe]
                        /\ last' = Observed("undo_move", "Undone")
           ELSE /\ hist' = [hist EXCEPT !.probe = NoProbe]
                /\ last' = Observed("undo_move", decided)
                /\ UNCHANGED <<board, move_log, move_log_file, undo_tasks>>
        /\ UNCHANGED <<user_team_cooldowns, now, running, tile_data>>

\* lines 313-314: after the await, the board is rendered and sent
undo_move_resumed(team_id) ==
    LET team == team_by_id(team_id)
    IN  /\ running
        /\ undo_tasks[team_id] > 0
        /\ undo_tasks' = [undo_tasks EXCEPT ![team_id] = @ - 1]
        /\ IF key_errors(board[team], create_board_template_from_json(tile_data),
                         move_log, team_id) # {}
           THEN /\ board' = [board EXCEPT ![team] =
                                rendered_until_error(@, create_board_template_from_json(tile_data),
                                                     move_log, team_id)]
                /\ hist' = [hist EXCEPT !.probe = NoProbe]
                /\ last' = Observed("undo_move", "KeyError")
           ELSE /\ board' = [board EXCEPT ![team] =
                                render_board_view(@, create_board_template_from_json(tile_data),
                                                  move_log, team_id).board]
                /\ hist' = [hist EXCEPT !.probe =
                               IF @.stage = "undone" /\ @.team_id = team_id
                               THEN [@ EXCEPT !.stage = "rendered"]
                               ELSE NoProbe]
                /\ last' = Observed("undo_move", "BoardView")
        /\ UNCHANGED <<move_log, move_log_file, user_team_cooldowns, now, running,
                       tile_data>>

----------------------------------------------------------------------------
(* commands.py: the commands that show or administer *)

\* !board: render_board_view on the caller's team, no replay before it
view_board(author_id) ==
    LET team == get_user_team(author_id)
    IN  /\ running
        /\ IF team = 0
           THEN /\ UNCHANGED board
                /\ last' = Observed("board", "NotOnTeam")
           ELSE IF key_errors(board[team], create_board_template_from_json(tile_data),
                              move_log, teams[team].id) # {}
           THEN /\ board' = [board EXCEPT ![team] =
                                rendered_until_error(@, create_board_template_from_json(tile_data),
                                                     move_log, teams[team].id)]
                /\ last' = Observed("board", "KeyError")
           ELSE /\ board' = [board EXCEPT ![team] =
                                render_board_view(@, create_board_template_from_json(tile_data),
                                                  move_log, teams[team].id).board]
                /\ last' = Observed("board", "BoardView")
        /\ hist' = [hist EXCEPT !.probe = NoProbe]
        /\ UNCHANGED <<move_log, move_log_file, user_team_cooldowns, now, running,
                       undo_tasks, tile_data>>

\* score_map.get(tile.tile_type, 0) of !tile_leaderboard: a type without an
\* entry counts nothing
score_map_get(tile_type) ==
    IF tile_type \in {"1", "2", "3", "bomb"} THEN score_map(tile_type) ELSE 0

\* the score and the bombs that !tile_leaderboard counts on a board, tile by tile
RECURSIVE team_score(_, _, _)
team_score(b, tiles, k) ==
    IF k = SIZE * SIZE THEN 0
    ELSE (IF b[k \div SIZE][k % SIZE]
          THEN score_map_get(tiles[k \div SIZE][k % SIZE].tile_type)
          ELSE 0)
         + team_score(b, tiles, k + 1)

RECURSIVE team_bomb_count(_, _, _)
team_bomb_count(b, tiles, k) ==
    IF k = SIZE * SIZE THEN 0
    ELSE (IF b[k \div SIZE][k % SIZE] /\ tiles[k \div SIZE][k % SIZE].tile_type = "bomb"
          THEN 1
          ELSE 0)
         + team_bomb_count(b, tiles, k + 1)

\* a list left in the order of data.teams; used to test that C20 notices the
\* order of the rows
left_unsorted(rows) == rows

\* list.sort(key=lambda x: x[1], reverse=True): by score, the highest first,
\* rows of equal score in the order they had
RECURSIVE insert_by_score(_, _)
insert_by_score(sorted, row) ==
    IF sorted = <<>> THEN <<row>>
    ELSE IF Head(sorted)[2] >= row[2]
         THEN <<Head(sorted)>> \o insert_by_score(Tail(sorted), row)
         ELSE <<row>> \o sorted

RECURSIVE sort_by_score_in_order(_)
sort_by_score_in_order(rows) ==
    IF rows = <<>> THEN <<>>
    ELSE insert_by_score(sort_by_score_in_order(SubSeq(rows, 1, Len(rows) - 1)),
                         rows[Len(rows)])

sort_by_score(rows) == sort_by_score_in_order(rows)

\* the rows of !tile_leaderboard, from the boards as the replay left them:
\* (team.id, score, bomb_count) of every team of data.teams, then sorted
leaderboard_rows(applied, tiles) ==
    sort_by_score([i \in 1..Len(teams) |->
                      <<teams[i].id,
                        team_score(applied[i], tiles, 0),
                        team_bomb_count(applied[i], tiles, 0)>>])

\* !tile_leaderboard: every team's board is replayed from the log, then scored
leaderboard(author_id) ==
    /\ running
    /\ IF author_id \notin ADMIN_IDS
       THEN /\ UNCHANGED board
            /\ last' = Observed("tile_leaderboard", "Unauthorized")
       ELSE /\ board' = [i \in 1..Len(teams) |->
                            apply_move_log_to_board(board[i], move_log, teams[i].id)]
            /\ last' = Observed("tile_leaderboard", "Leaderboard")
    /\ hist' = [hist EXCEPT !.probe = NoProbe]
    /\ UNCHANGED <<move_log, move_log_file, user_team_cooldowns, now, running,
                   undo_tasks, tile_data>>

\* !current_tile: the caller's board is replayed, then the last move is shown
current_tile(author_id) ==
    LET team    == get_user_team(author_id)
        team_id == teams[team].id
        applied == apply_move_log_to_board(board[team], move_log, team_id)
        moves   == team_moves(move_log, team_id)
        tile    == get_tile(moves[Len(moves)].coord)
    IN  /\ running
        /\ IF team = 0
           THEN /\ UNCHANGED board
                /\ last' = Observed("current_tile", "NotOnTeam")
           ELSE /\ board' = [board EXCEPT ![team] = applied]
                /\ last' = Observed("current_tile", IF moves = <<>> THEN "NoMovesForTeam"
                                ELSE IF tile.kind = "tile" /\ already_revealed(applied, tile)
                                THEN "CurrentTile"
                                ELSE "TileNotFound")
        /\ hist' = [hist EXCEPT !.probe = NoProbe]
        /\ UNCHANGED <<move_log, move_log_file, user_team_cooldowns, now, running,
                       undo_tasks, tile_data>>

\* lines 221-230: the number of entries that the answer of reset_cooldown names
\* (0: the answer is that no active cooldown was found)
affected(cooldowns, team_id) ==
    Cardinality({key \in DOMAIN cooldowns : key[2] = team_id})

\* a reset that deletes the entries of every team; used to test that C18
\* notices whose entries go
reset_every_cooldown(author_id, team_id) ==
    LET keys_to_remove == DOMAIN user_team_cooldowns
    IN  /\ running
        /\ IF author_id \notin ADMIN_IDS
           THEN /\ UNCHANGED user_team_cooldowns
                /\ hist' = [hist EXCEPT !.probe = NoProbe]
                /\ last' = Observed("reset_cooldown", "Unauthorized")
           ELSE /\ user_team_cooldowns' =
                       [k \in DOMAIN user_team_cooldowns \ keys_to_remove |->
                           user_team_cooldowns[k]]
                /\ hist' = [hist EXCEPT !.won[team_id] = -1, !.probe = NoProbe]
                /\ last' = Observed("reset_cooldown", IF keys_to_remove = {} THEN "NoActiveCooldowns"
                                ELSE "CooldownsReset")
        /\ UNCHANGED <<move_log, move_log_file, board, now, running, undo_tasks,
                       tile_data>>

\* !reset_cooldown: every entry of the team is deleted
reset_cooldown(author_id, team_id) ==
    LET keys_to_remove == {key \in DOMAIN user_team_cooldowns : key[2] = team_id}
    IN  /\ running
        /\ IF author_id \notin ADMIN_IDS
           THEN /\ UNCHANGED user_team_cooldowns
                /\ hist' = [hist EXCEPT !.probe = NoProbe]
                /\ last' = Observed("reset_cooldown", "Unauthorized")
           ELSE /\ user_team_cooldowns' =
                       [k \in DOMAIN user_team_cooldowns \ keys_to_remove |->
                           user_team_cooldowns[k]]
                /\ hist' = [hist EXCEPT !.won[team_id] = -1, !.probe = NoProbe]
                /\ last' = Observed("reset_cooldown", IF keys_to_remove = {} THEN "NoActiveCooldowns"
                                ELSE "CooldownsReset")
        /\ UNCHANGED <<move_log, move_log_file, board, now, running, undo_tasks,
                       tile_data>>

----------------------------------------------------------------------------
(* The environment: time passes, the process is restarted *)

Tick ==
    /\ \E t \in ClockReadings : t > now /\ now' = t
    /\ UNCHANGED <<move_log, move_log_file, board, user_team_cooldowns, running,
                   undo_tasks, tile_data, last, hist>>

\* bot.py: the process ends and starts again: the log is read from the file, the
\* boards are built from tiles.json, the cooldowns and the suspended handlers
\* are gone.  A file that does not parse ends the start-up.
Restart ==
    LET loaded == load_move_log(move_log_file)
    IN  /\ move_log' = loaded.value
        /\ running' = ~loaded.raised
        /\ board' = load_dummy_data_from_json(tile_data)
        /\ user_team_cooldowns' = NoCooldowns
        /\ undo_tasks' = [t \in TeamIdInputs |-> 0]
        /\ last' = Observed("startup", IF loaded.raised THEN "JSONDecodeError" ELSE "Started")
        /\ hist' = [hist EXCEPT !.won = [t \in TeamIdInputs |-> -1], !.probe = NoProbe]
        /\ UNCHANGED <<move_log_file, now, tile_data>>

\* the places where the process can end inside save_move_log: before open(),
\* after open() has truncated the file and before json.dump has written all of
\* it, after the file is closed
CrashPoints == {"before_open", "in_dump", "after_close"}

\* the file that a save leaves when the process ends at one of these places
save_move_log_interrupted(log, file, point) ==
    IF point = "before_open" THEN file
    ELSE IF point = "in_dump" THEN Truncated
    ELSE save_move_log(log, file, "ok").file

\* the process ends inside the save_move_log of a reveal (line 80)
select_tile_crashed(author_id, coord_str, point) ==
    LET team    == get_user_team(author_id)
        team_id == teams[team].id
        parsed  == parse_coord(coord_str)
        tile    == get_tile(parsed.coord)
        entry   == MoveLog(team_id, author_id, parsed.coord, isoformat(now))
    IN  /\ running
        /\ select_outcome(author_id, coord_str) = "Reveal"
        /\ board' = [board EXCEPT ![team] =
                         set_revealed(@, tile.row_index, tile.col_index, TRUE)]
        /\ move_log' = Append(move_log, entry)
        /\ move_log_file' = save_move_log_interrupted(move_log', move_log_file, point)
        /\ user_team_cooldowns' = without_expired(user_team_cooldowns, now)
        /\ running' = FALSE
        /\ hist' = [hist EXCEPT !.probe = NoProbe]
        /\ last' = Observed("select", "Crashed")
        /\ UNCHANGED <<now, undo_tasks, tile_data>>

\* the process ends inside the save_move_log of an undo (line 310)
undo_move_crashed(author_id, team_id, point) ==
    LET moves     == team_moves(move_log, team_id)
        last_move == moves[Len(moves)]
        team      == team_by_id(team_id)
        tile      == get_tile(last_move.coord)
    IN  /\ running
        /\ undo_outcome(author_id, team_id) = "Undo"
        /\ board' = [board EXCEPT ![team] =
                         set_revealed(@, tile.row_index, tile.col_index, FALSE)]
        /\ move_log' = list_remove(move_log, last_move)
        /\ move_log_file' = save_move_log_interrupted(move_log', move_log_file, point)
        /\ running' = FALSE
        /\ hist' = [hist EXCEPT !.standing = @ \ {<<team_id, last_move.coord.items>>},
                                !.probe = NoProbe]
        /\ last' = Observed("undo_move", "Crashed")
        /\ UNCHANGED <<user_team_cooldowns, now, undo_tasks, tile_data>>

----------------------------------------------------------------------------
(* Specifications *)

\* the commands that change the log, with the growth of the log and of the
\* suspended handlers capped; ios are the ways the writes to the file can end
Play(cap, inputs, ios) ==
    \/ \E u \in Users, s \in inputs, io \in ios :
          /\ select_outcome(u, s) = "Reveal" => Len(move_log) < cap
          /\ select_tile(u, s, io)
    \/ \E u \in Users, t \in TeamIdInputs, io \in ios :
          /\ undo_outcome(u, t) = "Undo" =>
                 \A k \in TeamIdInputs : undo_tasks[k] < MaxTasks
          /\ undo_move(u, t, io)
    \/ \E t \in TeamIdInputs : undo_move_resumed(t)

\* the commands that show the boards
Views ==
    \/ \E u \in Users : view_board(u)
    \/ \E u \in Users : leaderboard(u)
    \/ \E u \in Users : current_tile(u)

\* one run of the process with the clock advancing: the reveals, the undos and
\* the cooldown gate
Next ==
    \/ Play(MaxLog, OneTile, {"ok"})
    \/ \E u \in Users, t \in TeamIdInputs : reset_cooldown(u, t)
    \/ Tick

Spec == InitFresh /\ [][Next]_vars

\* one run of the process, the boards shown between the moves; tiles.json marks
\* a tile as revealed
NextBoard ==
    \/ Play(MaxLog, OneTile, {"ok"})
    \/ Views
    \/ \E u \in Users, t \in TeamIdInputs : reset_cooldown(u, t)

SpecBoard == Init /\ [][NextBoard]_vars

\* the process is stopped and started again between the moves
NextRestart ==
    \/ Play(MaxLogRestart, OneTile, {"ok"})
    \/ Restart

SpecRestart == InitFresh /\ [][NextRestart]_vars

\* one run of the process in which a write to the file can fail
NextFaulty == Play(MaxLog, OneTile, IoOutcomes)

SpecFaulty == InitFresh /\ [][NextFaulty]_vars

\* one run of the process with every kind of argument given to !select
NextParse == Play(MaxLog, CoordInputs \cup OutOfGrid, {"ok"})

SpecParse == InitFresh /\ [][NextParse]_vars

\* one run of the process on the boards built from any tiles.json, the board
\* shown between the moves
NextBuilt ==
    \/ Play(MaxLog, OneTile, {"ok"})
    \/ \E u \in Users : view_board(u)

SpecBuilt == InitBuilt /\ [][NextBuilt]_vars

\* the same run on the boards built from a tiles.json that is not as expected
SpecRaw == InitRaw /\ [][NextBuilt]_vars

\* the log is replayed on the boards of a process that has just started
NextApply ==
    \/ \E u \in Users : leaderboard(u)
    \/ \E u \in Users : current_tile(u)

SpecApply == InitLoaded /\ [][NextApply]_vars

\* the process can end inside the write of the file that a reveal or an undo
\* makes, and is started again
NextCrash ==
    \/ \E u \in Users, s \in OneTile :
          /\ select_outcome(u, s) = "Reveal" => Len(move_log) < MaxLog
          /\ select_tile(u, s, "ok")
    \/ \E u \in Users, s \in OneTile, point \in CrashPoints :
          /\ Len(move_log) < MaxLog
          /\ select_tile_crashed(u, s, point)
    \/ \E u \in Users, t \in TeamIdInputs, point \in CrashPoints :
          undo_move_crashed(u, t, point)
    \/ Restart

SpecCrash == InitFresh /\ [][NextCrash]_vars

\* one run of the process with arguments of !select typed in every tolerated
\* way, and malformed ones
NextFormat == Play(MaxLog, PaddedInputs \cup MalformedInputs, {"ok"})

SpecFormat == InitFresh /\ [][NextFormat]_vars

\* one run of the process with the clock advancing and every kind of rejected
\* attempt: an argument without a comma is among those given to !select
NextAttempts ==
    \/ Play(MaxLog, OneTile \cup { <<"A", "1">> }, {"ok"})
    \/ Tick

SpecAttempts == InitFresh /\ [][NextAttempts]_vars

\* the process is stopped and started again between the moves and the board
\* is shown; tiles.json marks a tile as revealed
NextRender ==
    \/ Play(MaxLog, OneTile, {"ok"})
    \/ \E u \in Users : view_board(u)
    \/ Restart

SpecRender == Init /\ [][NextRender]_vars

----------------------------------------------------------------------------
(* Properties *)

TeamIds == {teams[i].id : i \in 1..Len(teams)}

\* the coordinate of the tile at a position of the grid
CoordinateAt(r, c) == <<(<<UpperCase[r + 1]>>), c + 1>>

\* the coordinates that the entries of a team name in a log
LoggedCoords(log, team_id) ==
    {log[i].coord.items : i \in {j \in 1..Len(log) : log[j].team_id = team_id}}

\* the file that holds a log: every entry as a JSON object, its coordinate a list
Persisted(log) ==
    [state |-> "valid",
     data  |-> [i \in 1..Len(log) |->
                  [team_id |-> log[i].team_id, discord_id |-> log[i].discord_id,
                   coord |-> [kind |-> "list", items |-> log[i].coord.items],
                   timestamp |-> log[i].timestamp]]]

\* the log without its last entry of a team
WithoutLastOf(log, team_id) ==
    LET k == CHOOSE i \in 1..Len(log) :
                 /\ log[i].team_id = team_id
                 /\ \A j \in (i + 1)..Len(log) : log[j].team_id # team_id
    IN  SubSeq(log, 1, k - 1) \o SubSeq(log, k + 1, Len(log))

\* the team is inside the cooldown window of its latest success
InWindow(team_id) ==
    hist.won[team_id] >= 0 /\ now < hist.won[team_id] + COOLDOWN_DURATION

\* the window of the team's latest success has elapsed
WindowElapsed(team_id) ==
    hist.won[team_id] >= 0 /\ now >= hist.won[team_id] + COOLDOWN_DURATION

\* C1: while the process runs, between commands and after a restart, a tile of
\* a team's board is revealed if and only if the move log has an entry of that
\* team for the tile's coordinate
C1_RevealedIffLogged ==
    running =>
        \A i \in 1..Len(teams), r \in Rows, c \in Rows :
            board[i][r][c] <=> CoordinateAt(r, c) \in LoggedCoords(move_log, teams[i].id)

\* C2: a reveal of a coordinate that the team has revealed with success and
\* that was not undone since, when the cooldown gate lets it pass, fails with
\* AlreadyRevealed and leaves the length of the move log as it was
C2_RevealIdempotent ==
    [][\A u \in Users, s \in OneTile :
          LET team   == get_user_team(u)
              parsed == parse_coord(s)
          IN  ( /\ last'.cmd = "select"
                /\ last'.outcome # "OnCooldown"
                /\ team # 0
                /\ parsed.ok
                /\ <<teams[team].id, parsed.coord.items>> \in hist.standing
                /\ select_tile(u, s, "ok") )
              => /\ last'.outcome = "AlreadyRevealed"
                 /\ Len(move_log') = Len(move_log)]_vars

\* C3: when a successful reveal is followed at once by the undo of its team,
\* the tile is unrevealed and the move log is the log before the reveal, both
\* when the undo has answered and when it has shown the board
C3_UndoInverse ==
    hist.probe.stage \in {"undone", "rendered"} =>
        LET tile == get_tile(PyTuple(hist.probe.coord[1], hist.probe.coord[2]))
        IN  /\ move_log = hist.probe.log0
            /\ ~board[team_by_id(hist.probe.team_id)][tile.row_index][tile.col_index]

\* C4: a reveal attempted by any member of a team less than 20 minutes after
\* the latest success of the team, no reset of the team's cooldown having come
\* since, is rejected with OnCooldown; one attempted when the 20 minutes have
\* elapsed is not rejected with OnCooldown, and succeeds if it names a tile of
\* the grid that is not revealed
C4_PerTeamCooldown ==
    [][\A u \in Users, s \in OneTile :
          LET team    == get_user_team(u)
              team_id == teams[team].id
              parsed  == parse_coord(s)
              tile    == get_tile(parsed.coord)
          IN  (last'.cmd = "select" /\ team # 0 /\ select_tile(u, s, "ok"))
              => /\ InWindow(team_id) => last'.outcome = "OnCooldown"
                 /\ WindowElapsed(team_id) =>
                       /\ last'.outcome # "OnCooldown"
                       /\ ( /\ parsed.ok
                            /\ tile.kind = "tile"
                            /\ ~board[team][tile.row_index][tile.col_index] )
                          => last'.outcome = "Revealed"]_vars

\* a member of a team has been rejected with OnCooldown inside the window of a
\* success of a teammate
C4_Witness ==
    /\ last = Observed("select", "OnCooldown")
    /\ \E t \in TeamIds :
          /\ InWindow(t)
          /\ \E k \in DOMAIN user_team_cooldowns :
                k[2] = t /\ user_team_cooldowns[k] = hist.won[t]

\* C5 as stated: a reveal rejected with OnCooldown leaves the move log, the
\* file, every revealed flag and the whole cooldown mapping as they were
C5_OnCooldownMutatesNothing ==
    [][( /\ last' = Observed("select", "OnCooldown")
         /\ \E u \in Users, s \in OneTile : select_tile(u, s, "ok") )
       => UNCHANGED <<move_log, move_log_file, board, user_team_cooldowns>>]_vars

\* C5 amended: a reveal rejected with OnCooldown leaves the move log, the file
\* and every revealed flag as they were, and changes the cooldown mapping only
\* by dropping the entries that are more than 20 minutes old
C5_OnCooldownDropsOnlyExpired ==
    [][( /\ last' = Observed("select", "OnCooldown")
         /\ \E u \in Users, s \in OneTile : select_tile(u, s, "ok") )
       => /\ UNCHANGED <<move_log, move_log_file, board>>
          /\ DOMAIN user_team_cooldowns' =
                {k \in DOMAIN user_team_cooldowns :
                    now - user_team_cooldowns[k] <= COOLDOWN_DURATION}
          /\ \A k \in DOMAIN user_team_cooldowns' :
                user_team_cooldowns'[k] = user_team_cooldowns[k]]_vars

\* a reveal has been rejected with OnCooldown when the entry of another
\* team's success, more than 20 minutes old, is gone and the only entry left
\* in the mapping is the one that blocks
C5_Witness ==
    /\ last = Observed("select", "OnCooldown")
    /\ \E t \in TeamIds :
          hist.won[t] >= 0 /\ now - hist.won[t] > COOLDOWN_DURATION
    /\ \E k \in DOMAIN user_team_cooldowns :
          /\ DOMAIN user_team_cooldowns = {k}
          /\ now - user_team_cooldowns[k] < COOLDOWN_DURATION

\* C6: whatever the order in which reveals and undos are handled, a reveal
\* succeeds for a team only outside the cooldown window of the team's latest
\* success, and appends an entry for a coordinate only when the team has no
\* successful reveal of that coordinate standing
C6_CriticalSection ==
    [][\A u \in Users, s \in OneTile :
          LET team    == get_user_team(u)
              team_id == teams[team].id
              parsed  == parse_coord(s)
          IN  ( /\ Len(move_log') > Len(move_log)
                /\ team # 0
                /\ select_tile(u, s, "ok") )
              => /\ ~InWindow(team_id)
                 /\ <<team_id, parsed.coord.items>> \notin hist.standing]_vars

\* a team has revealed again, a window after its latest success, while the
\* undo of its first reveal has not yet shown the board
C6_Witness ==
    /\ last = Observed("select", "Revealed")
    /\ \E t \in TeamIds :
          /\ undo_tasks[t] > 0
          /\ hist.won[t] = now
          /\ now >= COOLDOWN_DURATION

\* C7: after apply_move_log_to_board on a team, the revealed tiles of the
\* team's board are exactly the tiles of the grid whose coordinates occur in
\* the log entries of that team, whatever the flags were before and whatever
\* the other teams have in the log
C7_ProjectionCorrect ==
    [][ /\ \A u \in Users :
              (u \in ADMIN_IDS /\ leaderboard(u))
              => \A i \in 1..Len(teams), r \in Rows, c \in Rows :
                    board'[i][r][c] <=>
                        CoordinateAt(r, c) \in LoggedCoords(move_log, teams[i].id)
        /\ \A u \in Users :
              (get_user_team(u) # 0 /\ current_tile(u))
              => \A r \in Rows, c \in Rows :
                    board'[get_user_team(u)][r][c] <=>
                        CoordinateAt(r, c) \in
                            LoggedCoords(move_log, teams[get_user_team(u)].id) ]_vars

\* the log has been replayed on boards that had a tile revealed without an
\* entry, and a tile with an entry of one team only
C7_Witness ==
    /\ last = Observed("tile_leaderboard", "Leaderboard")
    /\ tile_data = MarkedTiles
    /\ ~board[1][1][0]
    /\ board[1][0][0]
    /\ ~board[2][0][0]
    /\ Len(move_log) = 2

\* C8: a successful undo takes exactly one entry out of the move log, the last
\* entry of the team in log order, every other entry staying in its place in
\* the order, and sets the tile of that entry to unrevealed
C8_UndoRemovesLastOfTeam ==
    [][\A u \in Users, t \in TeamIdInputs :
          (last' = Observed("undo_move", "Undone") /\ undo_move(u, t, "ok"))
          => LET moves == SelectSeq(move_log, LAMBDA m : m.team_id = t)
                 tile  == get_tile(moves[Len(moves)].coord)
             IN  /\ move_log' = WithoutLastOf(move_log, t)
                 /\ ~board'[team_by_id(t)][tile.row_index][tile.col_index]]_vars

\* C9: an undo for a team id that no entry of the move log has answers
\* NoMovesForTeam and leaves the move log, the file, the revealed flags and
\* the cooldowns as they were
C9_UndoWithoutMoves ==
    [][\A u \in ADMIN_IDS, t \in TeamIdInputs :
          ( /\ last'.cmd = "undo_move"
            /\ \A i \in 1..Len(move_log) : move_log[i].team_id # t
            /\ undo_move(u, t, "ok") )
          => /\ last'.outcome = "NoMovesForTeam"
             /\ UNCHANGED <<move_log, move_log_file, board, user_team_cooldowns>>]_vars

\* an undo has answered NoMovesForTeam while the log held a move of another
\* team and a cooldown was running
C9_Witness ==
    /\ last = Observed("undo_move", "NoMovesForTeam")
    /\ move_log # <<>>
    /\ DOMAIN user_team_cooldowns # {}

\* C10: when a reveal or an undo has sent its success answer, the file holds
\* the move log that is in memory, also when earlier writes have failed
C10_PersistedBeforeAnswer ==
    last.outcome \in {"Revealed", "Undone"} => move_log_file = Persisted(move_log)

\* a reveal has answered with success after the write of an earlier reveal
\* failed (its entry is in the log, its cooldown was never recorded), and the
\* file holds both entries
C10_Witness ==
    /\ last = Observed("select", "Revealed")
    /\ Len(move_log) = 2
    /\ \E k \in DOMAIN user_team_cooldowns : DOMAIN user_team_cooldowns = {k}
    /\ move_log_file = Persisted(move_log)

\* C11: the log that load_move_log returns from the file that save_move_log
\* wrote equals the saved log entry by entry and in order, coordinate and
\* timestamp included; and saving what was loaded leaves the file as it was
C11_SaveLoadRoundTrip ==
    [][(Restart /\ move_log_file = save_move_log(move_log, move_log_file, "ok").file)
       => /\ move_log' = move_log
          /\ save_move_log(move_log', move_log_file', "ok").file = move_log_file']_vars

\* the coordinate names a tile of the grid: one letter A-G and a column 1-7
InGrid(items) ==
    /\ Len(items[1]) = 1
    /\ \E r \in Rows : items[1][1] = UpperCase[r + 1]
    /\ items[2] \in 1..SIZE

\* C12: a reveal whose argument parses into a row part and an integer column
\* and names no tile of the grid, when the cooldown gate lets it pass, answers
\* InvalidCoordinate (it does not end with an exception) and leaves the move
\* log, the file, the revealed flags and the cooldowns as they were
C12_OutOfGridIsInvalidCoordinate ==
    [][\A u \in Users, s \in CoordInputs \cup OutOfGrid :
          LET team   == get_user_team(u)
              parsed == parse_coord(s)
          IN  ( /\ last'.cmd = "select"
                /\ last'.outcome # "OnCooldown"
                /\ team # 0
                /\ parsed.ok
                /\ ~InGrid(parsed.coord.items)
                /\ select_tile(u, s, "ok") )
              => /\ last'.outcome = "InvalidCoordinate"
                 /\ UNCHANGED <<move_log, move_log_file, board, user_team_cooldowns>>]_vars

\* C13: on the board built from any tile definitions, get_tile of a coordinate
\* A-G x 1-7 returns the tile whose coordinates are that letter and number,
\* and get_tile of a coordinate whose letter is beyond G or whose column is
\* outside 1-7 returns None
C13_LookupFindsItsTile ==
    LET tiles == create_board_template_from_json(tile_data)
    IN  /\ \A r \in Rows, c \in Rows :
              LET tile == get_tile(PyTuple(<<UpperCase[r + 1]>>, c + 1))
              IN  /\ tile.kind = "tile"
                  /\ tiles[tile.row_index][tile.col_index].coordinates = CoordinateAt(r, c)
        /\ \A row \in {"A", "G", "H", "Z"}, col \in {0 - 1, 0, 1, SIZE, SIZE + 1} :
              ~InGrid(<<(<<row>>), col>>) => get_tile(PyTuple(<<row>>, col)).kind = "None"

\* a reveal of H,1 has been answered InvalidCoordinate on a board built from a
\* tiles.json that has a definition for H1
C13_Witness ==
    /\ last = Observed("select", "InvalidCoordinate")
    /\ \E i \in 1..Len(tile_data) : tile_data[i].coordinates = <<(<<"H">>), 1>>

\* C14: the board built from any list of definitions has 7 rows of 7 tiles,
\* the tile at each position carrying that position's coordinate; a position
\* without a definition holds the default tile, of type 1 and unrevealed, and
\* a position with definitions holds the first of them
C14_FullBoard ==
    LET tiles == create_board_template_from_json(tile_data)
    IN  /\ DOMAIN tiles = Rows
        /\ \A r \in Rows : DOMAIN tiles[r] = Rows
        /\ \A r \in Rows, c \in Rows :
              LET matching == {i \in 1..Len(tile_data) :
                                  tile_data[i].coordinates = CoordinateAt(r, c)}
              IN  /\ tiles[r][c].coordinates = CoordinateAt(r, c)
                  /\ IF matching = {}
                     THEN tiles[r][c].tile_type = "1" /\ ~tiles[r][c].revealed
                     ELSE \E i \in matching :
                             /\ \A j \in matching : i <= j
                             /\ tiles[r][c].tile_type = tile_data[i].tile_type
                             /\ tiles[r][c].revealed = tile_data[i].revealed

\* the boards have been built from a tiles.json that defines A1 twice, in two
\* ways, and the flags of the boards are those of the first definition
C14_Witness ==
    /\ last = Observed("startup", "Started")
    /\ Len(tile_data) = 2
    /\ tile_data[1].coordinates = <<(<<"A">>), 1>>
    /\ tile_data[2].coordinates = <<(<<"A">>), 1>>
    /\ tile_data[1].revealed # tile_data[2].revealed
    /\ \A i \in 1..Len(teams) : board[i][0][0] = tile_data[1].revealed

\* the point value of a tile type: KillCount 1, Collection 2, Unique 3, Bomb 4
PointsOf(tile_type) ==
    CASE tile_type = "1" -> 1
      [] tile_type = "2" -> 2
      [] tile_type = "3" -> 3
      [] tile_type = "bomb" -> 4

\* the sum of the point values of the tiles at a set of positions
RECURSIVE PointsAt(_, _)
PointsAt(tiles, positions) ==
    IF positions = {} THEN 0
    ELSE LET p == CHOOSE q \in positions : TRUE
         IN  PointsOf(tiles[p[1]][p[2]].tile_type) + PointsAt(tiles, positions \ {p})

\* the positions that are revealed on a team's board when it has been rendered:
\* those that were, and those that the log names for the team
ShownRevealed(i) ==
    {p \in Rows \X Rows :
        \/ board[i][p[1]][p[2]]
        \/ CoordinateAt(p[1], p[2]) \in LoggedCoords(move_log, teams[i].id)}

C16_AdminOnly ==
    [][ /\ \A u \in Users \ ADMIN_IDS, t \in TeamIdInputs :
              ( /\ last'.cmd \in {"undo_move", "reset_cooldown"}
                /\ (undo_move(u, t, "ok") \/ reset_cooldown(u, t)) )
              => /\ last'.outcome = "Unauthorized"
                 /\ UNCHANGED <<move_log, move_log_file, board, user_team_cooldowns>>
        /\ Len(move_log') < Len(move_log)
              => \E u \in ADMIN_IDS, t \in TeamIdInputs : undo_move(u, t, "ok")
        /\ (\E k \in DOMAIN user_team_cooldowns :
               /\ now - user_team_cooldowns[k] <= COOLDOWN_DURATION
               /\ k \notin DOMAIN user_team_cooldowns')
              => \E u \in ADMIN_IDS, t \in TeamIdInputs : reset_cooldown(u, t) ]_vars

\* a team member has asked for a reset of the cooldowns, has been answered
\* Unauthorized, and the team's cooldown still runs
C16_Witness ==
    /\ last = Observed("reset_cooldown", "Unauthorized")
    /\ \E k \in DOMAIN user_team_cooldowns :
          now - user_team_cooldowns[k] < COOLDOWN_DURATION

\* C17: a step after which a tile of a team's board is unrevealed that was
\* revealed before is an undo_move for that team
C17_UnrevealedOnlyByUndo ==
    [][\A i \in 1..Len(teams), r \in Rows, c \in Rows :
          (board[i][r][c] /\ ~board'[i][r][c])
          => \E u \in Users : undo_move(u, teams[i].id, "ok")]_vars

\* C18: reset_cooldown of an admin for a team id answers without an error,
\* takes out every cooldown entry of that team and no entry of another team,
\* names in its answer the number of entries taken out; and no reveal of a
\* member of a team is rejected with OnCooldown when the team has had no
\* success since the reset
C18_ResetClearsTeam ==
    [][ /\ \A a \in ADMIN_IDS, t \in TeamIdInputs :
          (last'.cmd = "reset_cooldown" /\ reset_cooldown(a, t))
          => /\ last'.outcome \in {"CooldownsReset", "NoActiveCooldowns"}
             /\ last'.outcome = "NoActiveCooldowns"
                   <=> affected(user_team_cooldowns, t) = 0
             /\ DOMAIN user_team_cooldowns' =
                   {k \in DOMAIN user_team_cooldowns : k[2] # t}
             /\ \A k \in DOMAIN user_team_cooldowns' :
                   user_team_cooldowns'[k] = user_team_cooldowns[k]
             /\ affected(user_team_cooldowns, t) =
                   Cardinality(DOMAIN user_team_cooldowns)
                       - Cardinality(DOMAIN user_team_cooldowns')
        /\ \A u \in Users, s \in OneTile :
          ( /\ last'.cmd = "select"
            /\ get_user_team(u) # 0
            /\ hist.won[teams[get_user_team(u)].id] = 0 - 1
            /\ select_tile(u, s, "ok") )
          => last'.outcome # "OnCooldown" ]_vars

\* the cooldowns of a team have been reset inside the window of its reveal
\* while the entry of another team stays
C18_Witness ==
    /\ last = Observed("reset_cooldown", "CooldownsReset")
    /\ DOMAIN user_team_cooldowns # {}
    /\ \E t \in TeamIds :
          /\ \A k \in DOMAIN user_team_cooldowns : k[2] # t
          /\ \E i \in 1..Len(move_log) :
                move_log[i].team_id = t /\ move_log[i].timestamp = isoformat(now)

\* C19: what !board shows is what replaying the team's log onto its board and
\* then rendering shows: the same cells revealed and the same score, whatever
\* the tile definitions are (a definition may say revealed: true)
C19_ViewIsApplyThenRender ==
    [][\A u \in Users :
          LET team     == get_user_team(u)
              team_id  == teams[team].id
              tiles    == create_board_template_from_json(tile_data)
              shown    == render_board_view(board[team], tiles, move_log, team_id)
              replayed == render_board_view(
                              apply_move_log_to_board(board[team], move_log, team_id),
                              tiles, move_log, team_id)
          IN  (last'.cmd = "board" /\ team # 0 /\ view_board(u))
              => /\ shown.cells = replayed.cells
                 /\ shown.total_score = replayed.total_score
                 /\ board'[team] = replayed.board]_vars

\* the rows that !tile_leaderboard has listed when it has just answered: it
\* counts them on the boards that its replay has left
ListedRows == leaderboard_rows(board, create_board_template_from_json(tile_data))

\* C20: the leaderboard lists every team exactly once, each with the sum of the
\* point values of the tiles whose coordinates the team's entries of the log
\* name, and no team stands before a team with a strictly higher score
C20_LeaderboardSortedScores ==
    last = Observed("tile_leaderboard", "Leaderboard")
    => LET tiles == create_board_template_from_json(tile_data)
           rows  == ListedRows
       IN  /\ Len(rows) = Len(teams)
           /\ \A i \in 1..Len(teams) :
                 Cardinality({k \in 1..Len(rows) : rows[k][1] = teams[i].id}) = 1
           /\ \A k \in 1..Len(rows) :
                 rows[k][2] =
                     PointsAt(tiles,
                         {p \in Rows \X Rows :
                             CoordinateAt(p[1], p[2])
                                 \in LoggedCoords(move_log, rows[k][1])})
           /\ \A j, k \in 1..Len(rows) :
                 j < k => rows[j][2] >= rows[k][2]

\* the leaderboard has been shown with the second team of the roster first: it
\* has the higher score, and the first team has a score too
C20_Witness ==
    /\ last = Observed("tile_leaderboard", "Leaderboard")
    /\ ListedRows[1][1] = teams[2].id
    /\ ListedRows[1][2] > ListedRows[2][2]
    /\ ListedRows[2][2] > 0

\* C21: when the process ends at any place inside save_move_log, the
\* load_move_log of the next start does not fail, and it returns the log that
\* was saved before or the log that was being saved
C21_CrashSafeSave ==
    [][ /\ last'.outcome = "Crashed"
           => LET loaded == load_move_log(move_log_file')
              IN  /\ ~loaded.raised
                  /\ \/ loaded.value = load_move_log(move_log_file).value
                     \/ loaded.value = load_move_log(Persisted(move_log')).value
        /\ (last.outcome = "Crashed" /\ Restart)
           => /\ running'
              /\ last' = Observed("startup", "Started") ]_vars

\* the outcomes that are an exception leaving the handler: no ctx.send has
\* been made for them, the caller sees nothing
Exceptions == {"OSError", "TypeError", "JSONDecodeError"}

\* C22: when the write of the move log fails in a reveal or in an undo, the
\* command answers its caller with a report of the failure: it sends no
\* success message and it does not end without a message
C22_WriteFailureReported ==
    [][ /\ \A u \in Users, s \in OneTile, io \in IoOutcomes \ {"ok"} :
              ( /\ last'.cmd = "select"
                /\ select_outcome(u, s) = "Reveal"
                /\ select_tile(u, s, io) )
              => /\ last'.outcome # "Revealed"
                 /\ last'.outcome \notin Exceptions
        /\ \A u \in Users, t \in TeamIdInputs, io \in IoOutcomes \ {"ok"} :
              ( /\ last'.cmd = "undo_move"
                /\ undo_outcome(u, t) = "Undo"
                /\ undo_move(u, t, io) )
              => /\ last'.outcome # "Undone"
                 /\ last'.outcome \notin Exceptions ]_vars

\* C23: when there is no move_log.json, load_move_log returns the empty list
\* and raises nothing, and the process that starts then runs with an empty
\* move log
C23_FirstRunLoadsEmpty ==
    /\ move_log_file = NoFile
          => load_move_log(move_log_file) = [raised |-> FALSE, value |-> <<>>]
    /\ (last.cmd = "startup" /\ move_log_file = NoFile)
          => /\ running
             /\ last.outcome = "Started"
             /\ move_log = <<>>

\* the process has started without a file and runs with an empty move log
C23_Witness ==
    /\ last = Observed("startup", "Started")
    /\ running
    /\ move_log_file = NoFile
    /\ load_move_log(move_log_file).value = <<>>
    /\ move_log = <<>>

\* the arguments of the tolerated form, each with the coordinate it stands for
PaddedCases ==
    { [text  |-> Padded("a", <<"2">>, a, b, c, d), coord |-> <<(<<"A">>), 2>>] :
        a \in Blanks, b \in Blanks, c \in Blanks, d \in Blanks }
    \cup { [text  |-> Padded("B", <<"1", "0">>, a, a, a, a),
            coord |-> <<(<<"B">>), 10>>] : a \in Blanks }

\* C24: the argument of !select, as the handler receives it, is parsed
\* whatever the case of the row letter and the blanks around the letter and
\* the number: "a, 2" gives ("A", 2), and the entry of a reveal holds that
\* coordinate; an argument without exactly one comma or with a column that is
\* no integer is answered with InvalidCoordinateFormat and changes nothing
C24_TolerantParsing ==
    [][ /\ \A u \in Users, k \in PaddedCases :
              ( /\ last'.cmd = "select"
                /\ last'.outcome \notin {"NotOnTeam", "OnCooldown"}
                /\ select_tile(u, k.text, "ok") )
              => /\ parse_coord(k.text).ok
                 /\ parse_coord(k.text).coord.items = k.coord
                 /\ last'.outcome # "InvalidCoordinateFormat"
                 /\ last'.outcome = "Revealed"
                       => move_log'[Len(move_log')].coord.items = k.coord
        /\ \A u \in Users, s \in MalformedInputs :
              ( /\ last'.cmd = "select"
                /\ last'.outcome \notin {"NotOnTeam", "OnCooldown"}
                /\ select_tile(u, s, "ok") )
              => /\ last'.outcome = "InvalidCoordinateFormat"
                 /\ UNCHANGED <<move_log, move_log_file, board>> ]_vars

\* " a , 2 " has been revealed as ("A", 2)
C24_Witness ==
    /\ last = Observed("select", "Revealed")
    /\ move_log[Len(move_log)].coord.items = <<(<<"A">>), 2>>
    /\ board[get_user_team(move_log[Len(move_log)].discord_id)][0][1]

\* the outcome that the checks of a reveal give when they are made in the
\* order NotOnTeam, OnCooldown, InvalidCoordinateFormat, InvalidCoordinate,
\* AlreadyRevealed and the first that fails decides
FirstFailingCheck(u, s) ==
    LET team   == get_user_team(u)
        parsed == parse_coord(s)
        r      == IndexIn(UpperCase, parsed.coord.items[1][1]) - 1
        c      == parsed.coord.items[2] - 1
    IN  IF team = 0 THEN "NotOnTeam"
        ELSE IF \E k \in DOMAIN user_team_cooldowns :
                    /\ k[2] = teams[team].id
                    /\ now - user_team_cooldowns[k] < COOLDOWN_DURATION
             THEN "OnCooldown"
        ELSE IF ~parsed.ok THEN "InvalidCoordinateFormat"
        ELSE IF ~InGrid(parsed.coord.items) THEN "InvalidCoordinate"
        ELSE IF board[team][r][c] THEN "AlreadyRevealed"
        ELSE "Revealed"

\* C25: the outcome of a reveal is that of the first check that fails, the
\* checks taken in the order NotOnTeam, OnCooldown, InvalidCoordinateFormat,
\* InvalidCoordinate, AlreadyRevealed: a caller on no team gets NotOnTeam, a
\* member of a team on cooldown gets OnCooldown whatever the argument is
C25_ChecksInOrder ==
    [][\A u \in Users, s \in CoordInputs \cup OutOfGrid :
          (last'.cmd = "select" /\ select_tile(u, s, "ok"))
          => last'.outcome = FirstFailingCheck(u, s)]_vars

\* C26: a successful reveal of coordinate c by user u of a team puts exactly
\* one entry at the end of the move log, with the team's id, u and c, sets the
\* flag of the tile at c on that team's board, writes the log to the file and
\* records the time for the key (u, team id); the earlier entries stay as they
\* were and in their order, and no other flag of any board changes
C26_RevealEffect ==
    [][\A u \in Users, s \in OneTile :
          (last' = Observed("select", "Revealed") /\ select_tile(u, s, "ok"))
          => LET team == get_user_team(u)
                 t    == teams[team].id
                 c    == parse_coord(s).coord.items
                 row  == IndexIn(UpperCase, c[1][1]) - 1
                 col  == c[2] - 1
                 n    == Len(move_log)
             IN  /\ Len(move_log') = n + 1
                 /\ SubSeq(move_log', 1, n) = move_log
                 /\ move_log'[n + 1].team_id = t
                 /\ move_log'[n + 1].discord_id = u
                 /\ move_log'[n + 1].coord.items = c
                 /\ board'[team][row][col]
                 /\ \A i \in 1..Len(teams), r2 \in Rows, c2 \in Rows :
                       <<i, r2, c2>> # <<team, row, col>>
                           => board'[i][r2][c2] = board[i][r2][c2]
                 /\ move_log_file' = Persisted(move_log')
                 /\ <<u, t>> \in DOMAIN user_team_cooldowns'
                 /\ user_team_cooldowns'[<<u, t>>] = now]_vars

\* a reveal has succeeded as the second entry of the log, after an entry of
\* the other team, at a later time
C26_Witness ==
    /\ last = Observed("select", "Revealed")
    /\ Len(move_log) = 2
    /\ move_log[1].team_id # move_log[2].team_id
    /\ now > 0
    /\ move_log[2].timestamp = isoformat(now)
    /\ move_log[1].timestamp = isoformat(0)
    /\ board[1][0][0] /\ board[2][0][0]
    /\ move_log_file = Persisted(move_log)

\* the outcomes of a reveal that is rejected for another reason than the
\* cooldown
Rejections ==
    {"NotOnTeam", "InvalidCoordinateFormat", "InvalidCoordinate", "AlreadyRevealed"}

\* C27: a reveal rejected with NotOnTeam, InvalidCoordinateFormat,
\* InvalidCoordinate or AlreadyRevealed adds no cooldown entry and gives no
\* entry a new time, so a team that was not on cooldown before it is not on
\* cooldown after it; a step that adds an entry or gives one a new time is a
\* successful reveal
C27_CooldownOnlyOnSuccess ==
    [][ /\ \A u \in Users, s \in OneTile \cup { <<"A", "1">> } :
              ( /\ last'.cmd = "select"
                /\ last'.outcome \in Rejections
                /\ select_tile(u, s, "ok") )
              => /\ DOMAIN user_team_cooldowns' \subseteq DOMAIN user_team_cooldowns
                 /\ \A k \in DOMAIN user_team_cooldowns' :
                       user_team_cooldowns'[k] = user_team_cooldowns[k]
                 /\ \A t \in TeamIds :
                       (\A k \in DOMAIN user_team_cooldowns :
                           k[2] = t => now - user_team_cooldowns[k] >= COOLDOWN_DURATION)
                       => (\A k \in DOMAIN user_team_cooldowns' :
                              k[2] = t => now' - user_team_cooldowns'[k] >= COOLDOWN_DURATION)
        /\ (\E k \in DOMAIN user_team_cooldowns' :
                \/ k \notin DOMAIN user_team_cooldowns
                \/ user_team_cooldowns'[k] # user_team_cooldowns[k])
           => last' = Observed("select", "Revealed") ]_vars

\* a reveal has been rejected with AlreadyRevealed exactly a window after the
\* success of the team, whose entry is still there with its time
C27_Witness ==
    /\ last = Observed("select", "AlreadyRevealed")
    /\ now = COOLDOWN_DURATION
    /\ \E k \in DOMAIN user_team_cooldowns : user_team_cooldowns[k] = 0

\* C28: after the gate check of a reveal by a member of a team at time now,
\* the cooldowns hold no entry older than 20 minutes, and every entry that was
\* at most 20 minutes old is still there; an entry exactly 20 minutes old is
\* kept and does not make the answer OnCooldown
C28_CollectionOnCheck ==
    [][\A u \in Users, s \in OneTile :
          (last'.cmd = "select" /\ get_user_team(u) # 0 /\ select_tile(u, s, "ok"))
          => LET t == teams[get_user_team(u)].id
             IN  /\ \A k \in DOMAIN user_team_cooldowns' :
                       ~(now - user_team_cooldowns'[k] > COOLDOWN_DURATION)
                 /\ \A k \in DOMAIN user_team_cooldowns :
                       now - user_team_cooldowns[k] <= COOLDOWN_DURATION
                       => /\ k \in DOMAIN user_team_cooldowns'
                          /\ \/ user_team_cooldowns'[k] = user_team_cooldowns[k]
                             \/ /\ k = <<u, t>>
                                /\ last'.outcome = "Revealed"
                                /\ user_team_cooldowns'[k] = now
                 /\ (\A k \in DOMAIN user_team_cooldowns :
                        k[2] = t => now - user_team_cooldowns[k] >= COOLDOWN_DURATION)
                    => last'.outcome # "OnCooldown"]_vars

\* a member has sent a reveal when one entry was older than the window and
\* another younger: the first is gone, the second is kept
C28_Witness ==
    /\ last.cmd = "select"
    /\ now = COOLDOWN_DURATION + 1
    /\ Len(move_log) = 2
    /\ move_log[1].timestamp = isoformat(0)
    /\ move_log[2].timestamp = isoformat(COOLDOWN_DURATION)
    /\ DOMAIN user_team_cooldowns = {<<move_log[2].discord_id, move_log[2].team_id>>}
    /\ user_team_cooldowns[<<move_log[2].discord_id, move_log[2].team_id>>]
          = COOLDOWN_DURATION

\* the move logs that hold the entries of a log in another order
Reordered(log) ==
    {[i \in 1..Len(log) |-> log[p[i]]] : p \in Permutations(1..Len(log))}

\* C29: apply_move_log_to_board applied a second time leaves the flags as the
\* first application left them, and it gives the same flags for the entries
\* of the move log taken in any order
C29_ApplyIdempotentAnyOrder ==
    /\ \A i \in 1..Len(teams) :
          LET once == apply_move_log_to_board(board[i], move_log, teams[i].id)
          IN  /\ apply_move_log_to_board(once, move_log, teams[i].id) = once
              /\ \A log \in Reordered(move_log) :
                    apply_move_log_to_board(board[i], log, teams[i].id) = once
    /\ last = Observed("tile_leaderboard", "Leaderboard")
          => \A i \in 1..Len(teams) :
                apply_move_log_to_board(board[i], move_log, teams[i].id) = board[i]

\* the log has been replayed with two entries of a team for different tiles
\* and both tiles are revealed
C29_Witness ==
    /\ last = Observed("tile_leaderboard", "Leaderboard")
    /\ Len(move_log) = 2
    /\ move_log[1].team_id = move_log[2].team_id
    /\ move_log[1].coord.items # move_log[2].coord.items
    /\ \E i \in 1..Len(teams) : board[i][0][0] /\ board[i][1][0]

\* C30: a step that renders the board of a team (!board, and !undo_move after
\* its confirmation) changes nothing but the flags of one board, and of these
\* it sets those of the tiles whose
\* coordinates the team's entries of the log name: no flag goes from true to
\* false, no flag of a tile that the team's entries do not name changes, and
\* the move log, the file and the cooldowns stay as they were
C30_RenderMarksLogged ==
    [][ last' \in {Observed("board", "BoardView"), Observed("undo_move", "BoardView")}
        => /\ UNCHANGED <<move_log, move_log_file, user_team_cooldowns>>
           /\ \E i \in 1..Len(teams) :
                 /\ \A r \in Rows, c \in Rows :
                       board'[i][r][c] <=>
                           \/ board[i][r][c]
                           \/ CoordinateAt(r, c) \in LoggedCoords(move_log, teams[i].id)
                 /\ \A j \in 1..Len(teams) : j # i => board'[j] = board[j] ]_vars

\* the board of a team has been shown after a restart: the tile of its entry
\* of the log, unrevealed since the start, is revealed again, and the tile
\* that tiles.json marks is still revealed
C30_Witness ==
    /\ last = Observed("board", "BoardView")
    /\ Len(move_log) = 1
    /\ DOMAIN user_team_cooldowns = {}
    /\ \E i \in 1..Len(teams) :
          /\ move_log[1].team_id = teams[i].id
          /\ board[i][0][0]
          /\ board[i][1][0]

\* a definition lacks a field or has a type that is none of 1, 2, 3, "bomb"
InvalidDefinition(d) ==
    \/ ~(TileFields \subseteq DOMAIN d)
    \/ d.tile_type \notin TileTypes

\* C31: a tiles.json with a definition that lacks a field or has a type other
\* than 1, 2, 3, "bomb" ends the start-up; so while the process runs every
\* tile of every board has one of these types, and no rendering of a board
\* ends with an error on a tile type
C31_InvalidTilesFatal ==
    /\ (\E i \in 1..Len(tile_data) : InvalidDefinition(tile_data[i])) => ~running
    /\ running
          => \A r \in Rows, c \in Rows :
                create_board_template_from_json(tile_data)[r][c].tile_type \in TileTypes
    /\ last.outcome # "KeyError" \/ last.cmd = "startup"

\* C32: the move log never holds two entries of the same team for the same
\* coordinate, also after the process has been started again on the file
C32_OneEntryPerTeamAndTile ==
    \A i, j \in 1..Len(move_log) :
        ( /\ i < j
          /\ move_log[i].team_id = move_log[j].team_id )
        => move_log[i].coord.items # move_log[j].coord.items

\* the successful reveals of the team have all been undone
AllUndone(team_id) == \A pair \in hist.standing : pair[1] # team_id

\* C33: an undo leaves the cooldowns as they were: when a team's successful
\* reveal has been undone inside the 20 minutes after it, a reveal that a
\* member of the team sends inside these 20 minutes is still answered with
\* OnCooldown
C33_UndoKeepsCooldown ==
    [][ /\ last'.cmd = "undo_move" => UNCHANGED user_team_cooldowns
        /\ \A u \in Users, s \in OneTile :
              ( /\ last'.cmd = "select"
                /\ get_user_team(u) # 0
                /\ InWindow(teams[get_user_team(u)].id)
                /\ AllUndone(teams[get_user_team(u)].id)
                /\ select_tile(u, s, "ok") )
              => /\ last'.outcome = "OnCooldown"
                 /\ UNCHANGED <<move_log, board>> ]_vars

\* a member of a team has been answered OnCooldown after the team's reveal
\* was undone: the team has no entry in the log and its tile is unrevealed
C33_Witness ==
    /\ last = Observed("select", "OnCooldown")
    /\ \E i \in 1..Len(teams) :
          /\ InWindow(teams[i].id)
          /\ AllUndone(teams[i].id)
          /\ LoggedCoords(move_log, teams[i].id) = {}
          /\ ~board[i][0][0]
          /\ \A t \in TeamIds : t # teams[i].id => hist.won[t] = 0 - 1

\* the entries of a team in a log, in the order of the log
EntriesOf(log, team_id) == SelectSeq(log, LAMBDA m : m.team_id = team_id)

\* a step for the team of index i leaves the other teams alone: their flags,
\* their entries of the log and the order of these, and their cooldown
\* entries, of which none is new and none has a new time
OthersUntouched(i) ==
    /\ \A j \in 1..Len(teams) : j # i => board'[j] = board[j]
    /\ \A t \in TeamIdInputs :
          (i = 0 \/ t # teams[i].id)
          => EntriesOf(move_log', t) = EntriesOf(move_log, t)
    /\ \A k \in DOMAIN user_team_cooldowns' :
          (i = 0 \/ k[2] # teams[i].id)
          => /\ k \in DOMAIN user_team_cooldowns
             /\ user_team_cooldowns'[k] = user_team_cooldowns[k]

\* (the team of a reveal that succeeds is the one of the entry it appends, a
\* reveal that is rejected is for no team; the team of an undo that goes
\* through is the one whose count of suspended handlers changes: up when the
\* entry is removed, down when the board is rendered; an undo that is refused
\* changes nothing)
\* C34: a reveal or an undo for a team changes no flag of another team's
\* board, adds, removes or moves no log entry of another team and makes or
\* refreshes no cooldown entry of another team; and a team that has had no
\* success inside the last 20 minutes is not answered OnCooldown, whatever
\* the other teams have revealed
C34_TeamIsolation ==
    [][ /\ last'.cmd = "select"
              => IF last'.outcome = "Revealed"
                 THEN OthersUntouched(team_by_id(move_log'[Len(move_log')].team_id))
                 ELSE OthersUntouched(0)
        /\ \A u \in Users, s \in OneTile :
              ( /\ last' = Observed("select", "OnCooldown")
                /\ select_tile(u, s, "ok") )
              => InWindow(teams[get_user_team(u)].id)
        /\ last'.cmd = "undo_move"
              => IF undo_tasks' = undo_tasks
                 THEN UNCHANGED <<board, move_log, user_team_cooldowns>>
                 ELSE \A t \in TeamIdInputs :
                         undo_tasks'[t] # undo_tasks[t]
                         => OthersUntouched(team_by_id(t)) ]_vars

\* a team has revealed its tile while the other team was inside its window:
\* both have their flag, their entry and their cooldown entry
C34_Witness ==
    /\ last = Observed("select", "Revealed")
    /\ \A i \in 1..Len(teams) :
          /\ InWindow(teams[i].id)
          /\ board[i][0][0]
          /\ Len(EntriesOf(move_log, teams[i].id)) = 1
          /\ \E k \in DOMAIN user_team_cooldowns : k[2] = teams[i].id

====
